---------------------------- MODULE Spec2Model ----------------------------
(***************************************************************************)
(* Effect-chain graph builder of the Vue audio player (src/src/App.vue).   *)
(*                                                                         *)
(* The state is the script's module-level state: the parameter record fx,  *)
(* the chain fxChain, the node handles (eqLow, waveShaper, ...), and the   *)
(* Web Audio connection graph those handles are wired into.  Every action  *)
(* is one handler of the component together with the watchers it triggers. *)
(*                                                                         *)
(* Numbers are integers in the unit of the slider's step:                  *)
(*   gains of mixing stages and wet levels in 1/100 (50 = 0.5),            *)
(*   chorusRate in 1/10 Hz, chorusDepth and compAttack in 1/1000 s,        *)
(*   delayTime, delayFeedback, compRelease, pan in 1/100.                  *)
(***************************************************************************)
EXTENDS Integers, Sequences, FiniteSets, TLC

VARIABLES
    fx,          \* fx.value: the parameter record (On flags, levels, reverbIR)
    fxChain,     \* fxChain.value: sequence of [id, enabled, mode]
    volume,      \* volume.value: the master level in 1/100
    elVolume,    \* audioEl.value.volume in 1/100
    audioCtx,    \* audioCtx.value # null
    node,        \* node handle per module-level variable, 0 = null
    param,       \* live parameter surface of the nodes (AudioParam values)
    buffer,      \* convolver.buffer: 0 = null, else the id of the load that set it
    lfoStarted,  \* chorusLFO has been started
    lfoStarts,   \* number of chorusLFO.start() calls that started the oscillator
    edges,       \* the connections: set of <<from, to>>
    mixer,       \* gains of the dry / wet / sum stages of the n-th makeParallel call
    rebuilds,    \* number of rebuildGraph calls that passed the guard
    pass,        \* the blocks wired by the latest rebuildGraph pass, with its head
    passEdges,   \* the connections made by the latest rebuildGraph pass
    pending,     \* loadReverbIR invocations awaiting fetch/decode
    loads,       \* number of loadReverbIR invocations that started a fetch
    ops          \* number of user interface events handled so far

vars == <<fx, fxChain, volume, elVolume, audioCtx, node, param, buffer,
          lfoStarted, lfoStarts, edges, mixer, rebuilds, pass, passEdges,
          pending, loads, ops>>

-----------------------------------------------------------------------------
(* Bounds of the exploration *)

\* user interface events per behaviour 
MaxOps == 2
\* impulse-response fetches per behaviour
MaxLoads == 2

-----------------------------------------------------------------------------
(* Effect kinds, parameters, nodes *)

Kinds == {"eq", "dist", "chorus", "delay", "reverb", "pan", "comp"}

\* kinds whose "parallel" option is not disabled in the mode select
ParallelKinds == {"dist", "chorus", "delay", "reverb", "comp"}

OnField(id) ==
    CASE id = "eq"     -> "eqOn"
      [] id = "dist"   -> "distOn"
      [] id = "chorus" -> "chorusOn"
      [] id = "delay"  -> "delayOn"
      [] id = "reverb" -> "reverbOn"
      [] id = "pan"    -> "panOn"
      [] id = "comp"   -> "compOn"

LiveFields == {"lowGain", "midGain", "highGain", "distAmount", "chorusRate",
               "chorusDepth", "delayTime", "delayFeedback", "pan",
               "compThreshold", "compKnee", "compRatio", "compAttack",
               "compRelease"}

WetFields == {"chorusWet", "delayWet", "reverbWet"}

FxDefault ==
    [eqOn |-> FALSE, lowGain |-> 0, midGain |-> 0, highGain |-> 0,
     distOn |-> FALSE, distAmount |-> 50,
     chorusOn |-> FALSE, chorusRate |-> 15, chorusDepth |-> 2, chorusWet |-> 50,
     delayOn |-> FALSE, delayTime |-> 30, delayFeedback |-> 40, delayWet |-> 50,
     reverbOn |-> FALSE, reverbWet |-> 50, reverbIR |-> "",
     panOn |-> FALSE, pan |-> 0,
     compOn |-> FALSE, compThreshold |-> -24, compKnee |-> 30, compRatio |-> 12,
     compAttack |-> 3, compRelease |-> 25]

ChainDefault ==
    << [id |-> "eq",     enabled |-> FALSE, mode |-> "serial"],
       [id |-> "dist",   enabled |-> FALSE, mode |-> "serial"],
       [id |-> "chorus", enabled |-> FALSE, mode |-> "parallel"],
       [id |-> "delay",  enabled |-> FALSE, mode |-> "parallel"],
       [id |-> "reverb", enabled |-> FALSE, mode |-> "parallel"],
       [id |-> "pan",    enabled |-> FALSE, mode |-> "serial"],
       [id |-> "comp",   enabled |-> FALSE, mode |-> "serial"] >>

\* the module-level node variables
NodeNames == {"sourceNode", "gainNode", "analyser",
              "eqLow", "eqMid", "eqHigh", "waveShaper",
              "chorusDelay", "chorusDepthGain", "chorusLFO", "chorusWet",
              "delayNode", "delayFeedback", "delayWet",
              "convolver", "reverbWet", "panner", "compressor"}

\* a vertex of the connection graph: a module-level node, the destination, an
\* AudioParam input, or the n-th single-use dry / wet / sum stage
N(name) == <<name, 0>>
Dry(n) == <<"dry", n>>
Wet(n) == <<"wet", n>>
Sum(n) == <<"sum", n>>
Destination == N("destination")
ChorusDelayTime == N("chorusDelay.delayTime")

\* the live parameter slots of the nodes
Slots == {"eqLow.gain", "eqMid.gain", "eqHigh.gain", "waveShaper.curve",
          "chorusLFO.frequency", "chorusDepthGain.gain", "chorusWet.gain",
          "delayNode.delayTime", "delayFeedback.gain", "delayWet.gain",
          "reverbWet.gain", "panner.pan",
          "compressor.threshold", "compressor.knee", "compressor.ratio",
          "compressor.attack", "compressor.release", "gainNode.gain"}

Unset == "unset"

\* volume.value = 0.9
Volume == 90

\* the range of the master level, and the step of the arrow keys
VolumeMin == 0
VolumeMax == 100
VolumeStep == 5

\* Math.min(a, b), Math.max(a, b)
MathMin(a, b) == IF a < b THEN a ELSE b
MathMax(a, b) == IF a > b THEN a ELSE b

\* the drive amount determines the curve table
makeDistortionCurve(amount) == <<"curve", amount>>

\* n = 44100 samples per table
CurveN == 44100

\* Math.PI as the fraction 355 / 113
PiNum == 355
PiDen == 113

\* binary digits kept after the point of a sample value
FracBits == 16

\* the b binary digits after the point of r / den, for 0 <= r < den
RECURSIVE FracDigits(_, _, _)
FracDigits(r, den, b) ==
    IF b = 0 THEN 0
    ELSE IF 2 * r >= den
         THEN 2 ^ (b - 1) + FracDigits(2 * r - den, den, b - 1)
         ELSE FracDigits(2 * r, den, b - 1)

\* num / den in units of 2 ^ -FracBits, the sign as in floating-point division
Quotient(num, den) ==
    LET an == IF num < 0 THEN -num ELSE num
        ad == IF den < 0 THEN -den ELSE den
        mag == (an \div ad) * 2 ^ FracBits + FracDigits(an % ad, ad, FracBits)
    IN  IF (num < 0) # (den < 0) THEN -mag ELSE mag

\* a table whose denominator takes x with its sign
CurveValueSigned(k, i) ==
    LET xn == i * 2 - CurveN
    IN  Quotient((3 + k) * xn * PiNum, CurveN * PiNum + k * xn * PiDen)

\* 9 * curve[i] of makeDistortionCurve(k): with x = i * 2 / n - 1 and deg = PI / 180,
\* curve[i] = (3 + k) * x * 20 * deg / (PI + k * |x|); numerator and denominator
\* are multiplied by n, and 20 * deg = PI / 9
CurveValue(k, i) ==
    LET xn == i * 2 - CurveN
        abs == IF xn < 0 THEN -xn ELSE xn
    IN  Quotient((3 + k) * xn * PiNum, CurveN * PiNum + k * abs * PiDen)


-----------------------------------------------------------------------------
(* Web Audio primitives *)

\* a creation that replaces an existing handle by a new one
OrCreateAlways(h) == h + 1

\* x ||= audioCtx.value.createX(): an existing handle is kept
OrCreate(h) == IF h # 0 THEN h ELSE 1

\* x ||= makeGain(v): the gain value is written only when the node is created
OrCreateGain(st, name, slot, v) ==
    IF st.node[name] # 0 THEN st
    ELSE [st EXCEPT !.node[name] = OrCreate(@), !.param[slot] = v]

\* a.connect(b) during a pass
Connect(st, a, b) ==
    [st EXCEPT !.edges = @ \cup {<<a, b>>}, !.made = @ \cup {<<a, b>>}]

\* a.disconnect(): drops every outbound connection of a
Disconnect(st, a) ==
    [st EXCEPT !.edges = {e \in @ : e[1] # a}, !.made = {e \in @ : e[1] # a}]

\* a parallel mix whose dry stage is never connected to the sum
makeParallelNoDry(st, id, wetNode, wetGainValue) ==
    LET n  == Len(st.mixer) + 1
        s0 == [st EXCEPT !.mixer = Append(@, [dry |-> 100, wet |-> wetGainValue,
                                              sum |-> 100])]
        s1 == Connect(s0, st.head, Dry(n))
        s2 == Connect(s1, st.head, wetNode)
        s3 == Connect(s2, wetNode, Wet(n))
        s5 == Connect(s3, Wet(n), Sum(n))
    IN  [s5 EXCEPT !.head = Sum(n),
                   !.log = Append(@, [id |-> id, serial |-> FALSE,
                                      headIn |-> st.head, headOut |-> Sum(n),
                                      node |-> wetNode, n |-> n])]

\* makeParallel(headIn, wetNode, wetGainValue) applied to the head of the pass
makeParallel(st, id, wetNode, wetGainValue) ==
    LET n  == Len(st.mixer) + 1
        s0 == [st EXCEPT !.mixer = Append(@, [dry |-> 100, wet |-> wetGainValue,
                                              sum |-> 100])]
        s1 == Connect(s0, st.head, Dry(n))
        s2 == Connect(s1, st.head, wetNode)
        s3 == Connect(s2, wetNode, Wet(n))
        s4 == Connect(s3, Dry(n), Sum(n))
        s5 == Connect(s4, Wet(n), Sum(n))
    IN  [s5 EXCEPT !.head = Sum(n),
                   !.log = Append(@, [id |-> id, serial |-> FALSE,
                                      headIn |-> st.head, headOut |-> Sum(n),
                                      node |-> wetNode, n |-> n])]

\* a serial step that connects the entry but leaves the head where it was
makeSerialKeepHead(st, id, entry, exit) ==
    LET s1 == Connect(st, st.head, entry)
    IN  [s1 EXCEPT !.log = Append(@, [id |-> id, serial |-> TRUE,
                                      headIn |-> st.head, headOut |-> st.head,
                                      node |-> entry, n |-> 0])]

\* head.connect(entry); head = exit
makeSerial(st, id, entry, exit) ==
    LET s1 == Connect(st, st.head, entry)
    IN  [s1 EXCEPT !.head = exit,
                   !.log = Append(@, [id |-> id, serial |-> TRUE,
                                      headIn |-> st.head, headOut |-> exit,
                                      node |-> entry, n |-> 0])]

-----------------------------------------------------------------------------
(* rebuildGraph: lazy preparation of the nodes *)

PrepEq(st, f) ==
    IF ~f.eqOn THEN st
    ELSE [st EXCEPT !.node["eqLow"] = OrCreate(@),
                    !.node["eqMid"] = OrCreate(@),
                    !.node["eqHigh"] = OrCreate(@),
                    !.param["eqLow.gain"] = f.lowGain,
                    !.param["eqMid.gain"] = f.midGain,
                    !.param["eqHigh.gain"] = f.highGain]

PrepDist(st, f) ==
    IF ~f.distOn THEN st
    ELSE [st EXCEPT !.node["waveShaper"] = OrCreate(@),
                    !.param["waveShaper.curve"] = makeDistortionCurve(f.distAmount)]

\* an oscillator that every start() call starts anew
OscRestart(st) == [st EXCEPT !.lfoStarted = TRUE, !.lfoStarts = @ + 1]

\* try { chorusLFO.start() } catch {}: the first call starts the oscillator, a
\* later call throws InvalidStateError, which is caught and changes nothing
OscStart(st) ==
    IF st.lfoStarted THEN st
    ELSE [st EXCEPT !.lfoStarted = TRUE, !.lfoStarts = @ + 1]

PrepChorus(st, f) ==
    IF ~f.chorusOn THEN st
    ELSE LET s1 == [st EXCEPT !.node["chorusDelay"] = OrCreate(@)]
             s2 == OrCreateGain(s1, "chorusDepthGain", "chorusDepthGain.gain",
                                f.chorusDepth)
             s3 == OscStart([s2 EXCEPT !.node["chorusLFO"] = OrCreate(@),
                                       !.param["chorusLFO.frequency"] = f.chorusRate])
             s4 == OrCreateGain(s3, "chorusWet", "chorusWet.gain", f.chorusWet)
             s5 == Connect(Disconnect(s4, N("chorusLFO")),
                           N("chorusLFO"), N("chorusDepthGain"))
         IN  Connect(Disconnect(s5, N("chorusDepthGain")),
                     N("chorusDepthGain"), ChorusDelayTime)

PrepDelay(st, f) ==
    IF ~f.delayOn THEN st
    ELSE LET s1 == [st EXCEPT !.node["delayNode"] = OrCreate(@)]
             s2 == OrCreateGain(s1, "delayFeedback", "delayFeedback.gain",
                                f.delayFeedback)
             s3 == OrCreateGain(s2, "delayWet", "delayWet.gain", f.delayWet)
         IN  [s3 EXCEPT !.param["delayNode.delayTime"] = f.delayTime]

PrepReverb(st, f) ==
    IF ~f.reverbOn THEN st
    ELSE OrCreateGain([st EXCEPT !.node["convolver"] = OrCreate(@)],
                      "reverbWet", "reverbWet.gain", f.reverbWet)

PrepPan(st, f) ==
    IF ~f.panOn THEN st
    ELSE [st EXCEPT !.node["panner"] = OrCreate(@),
                    !.param["panner.pan"] = f.pan]

PrepComp(st, f) ==
    IF ~f.compOn THEN st
    ELSE [st EXCEPT !.node["compressor"] = OrCreate(@),
                    !.param["compressor.threshold"] = f.compThreshold,
                    !.param["compressor.knee"] = f.compKnee,
                    !.param["compressor.ratio"] = f.compRatio,
                    !.param["compressor.attack"] = f.compAttack,
                    !.param["compressor.release"] = f.compRelease]

PrepNodes(st, f) ==
    PrepComp(PrepPan(PrepReverb(PrepDelay(PrepChorus(PrepDist(PrepEq(st, f), f),
                                                     f), f), f), f), f)

-----------------------------------------------------------------------------
(* rebuildGraph: the pass over fxChain *)

\* gain of the wet stage of a parallel distortion / compressor
DistWet == 100
CompWet == 60

WireEq(st, serial) ==
    IF serial
    THEN LET s1 == makeSerial(st, "eq", N("eqLow"), N("eqHigh"))
         IN  Connect(Connect(s1, N("eqLow"), N("eqMid")), N("eqMid"), N("eqHigh"))
    ELSE st

WireDist(st, serial) ==
    IF serial THEN makeSerial(st, "dist", N("waveShaper"), N("waveShaper"))
    ELSE makeParallel(st, "dist", N("waveShaper"), DistWet)

WireChorus(st, serial, f) ==
    IF serial THEN makeSerial(st, "chorus", N("chorusDelay"), N("chorusDelay"))
    ELSE makeParallel(st, "chorus", N("chorusDelay"), f.chorusWet)

\* a delay block whose Parallel branch leaves the feedback loop as it is
WireDelayLoopKept(st, serial, f) ==
    LET s1 == Disconnect(Disconnect(st, N("delayNode")), N("delayFeedback"))
        s2 == Connect(Connect(s1, N("delayNode"), N("delayFeedback")),
                      N("delayFeedback"), N("delayNode"))
    IN  IF serial THEN makeSerial(s2, "delay", N("delayNode"), N("delayNode"))
        ELSE makeParallel(s2, "delay", N("delayNode"), f.delayWet)

WireDelay(st, serial, f) ==
    LET s1 == Disconnect(Disconnect(st, N("delayNode")), N("delayFeedback"))
        s2 == Connect(Connect(s1, N("delayNode"), N("delayFeedback")),
                      N("delayFeedback"), N("delayNode"))
    IN  IF serial THEN makeSerial(s2, "delay", N("delayNode"), N("delayNode"))
        ELSE makeParallel(Connect(Disconnect(s2, N("delayFeedback")),
                                  N("delayFeedback"), N("delayWet")),
                          "delay", N("delayNode"), f.delayWet)

WireReverb(st, serial, f) ==
    IF serial THEN makeSerial(st, "reverb", N("convolver"), N("convolver"))
    ELSE makeParallel(Connect(Disconnect(st, N("convolver")),
                              N("convolver"), N("reverbWet")),
                      "reverb", N("convolver"), f.reverbWet)

WirePan(st) == makeSerial(st, "pan", N("panner"), N("panner"))

WireComp(st, serial) ==
    IF serial THEN makeSerial(st, "comp", N("compressor"), N("compressor"))
    ELSE makeParallel(st, "comp", N("compressor"), CompWet)

\* one iteration of the loop over fxChain
WireBlock(st, block, f, buf) ==
    IF ~block.enabled THEN st
    ELSE LET serial == block.mode = "serial" IN
         CASE block.id = "eq" /\ f.eqOn -> WireEq(st, serial)
           [] block.id = "dist" /\ f.distOn -> WireDist(st, serial)
           [] block.id = "chorus" /\ f.chorusOn -> WireChorus(st, serial, f)
           [] block.id = "delay" /\ f.delayOn -> WireDelay(st, serial, f)
           [] block.id = "reverb" /\ f.reverbOn /\ st.node["convolver"] # 0
                /\ buf # 0 -> WireReverb(st, serial, f)
           [] block.id = "pan" /\ f.panOn -> WirePan(st)
           [] block.id = "comp" /\ f.compOn -> WireComp(st, serial)
           [] OTHER -> st

RECURSIVE WireChain(_, _, _, _, _)
WireChain(st, chain, i, f, buf) ==
    IF i > Len(chain) THEN st
    ELSE WireChain(WireBlock(st, chain[i], f, buf), chain, i + 1, f, buf)

\* a pass that ends by connecting the head to the destination, past the analyser
RebuildPassPastTap(g, chain, f, buf) ==
    LET s0 == [node |-> g.node, param |-> g.param,
               lfoStarted |-> g.lfoStarted, lfoStarts |-> g.lfoStarts,
               edges |-> g.edges,
               mixer |-> g.mixer, head |-> N("gainNode"),
               made |-> {}, log |-> << >>]
        s1 == Disconnect(Disconnect(Disconnect(s0, N("sourceNode")),
                                    N("gainNode")), N("analyser"))
        s2 == Connect(s1, N("sourceNode"), N("gainNode"))
        s3 == PrepNodes(s2, f)
        s4 == WireChain(s3, chain, 1, f, buf)
        s5 == Connect(Connect(s4, s4.head, Destination),
                      N("analyser"), Destination)
    IN  [node |-> s5.node, param |-> s5.param,
         lfoStarted |-> s5.lfoStarted, lfoStarts |-> s5.lfoStarts,
         edges |-> s5.edges,
         mixer |-> s5.mixer, rebuilds |-> g.rebuilds + 1,
         pass |-> s5.log, passEdges |-> s5.made]

\* rebuildGraph() behind its guard: teardown, preparation, the pass over fxChain,
\* the final connections
RebuildPass(g, chain, f, buf) ==
    LET s0 == [node |-> g.node, param |-> g.param,
               lfoStarted |-> g.lfoStarted, lfoStarts |-> g.lfoStarts,
               edges |-> g.edges,
               mixer |-> g.mixer, head |-> N("gainNode"),
               made |-> {}, log |-> << >>]
        s1 == Disconnect(Disconnect(Disconnect(s0, N("sourceNode")),
                                    N("gainNode")), N("analyser"))
        s2 == Connect(s1, N("sourceNode"), N("gainNode"))
        s3 == PrepNodes(s2, f)
        s4 == WireChain(s3, chain, 1, f, buf)
        s5 == Connect(Connect(s4, s4.head, N("analyser")),
                      N("analyser"), Destination)
    IN  [node |-> s5.node, param |-> s5.param,
         lfoStarted |-> s5.lfoStarted, lfoStarts |-> s5.lfoStarts,
         edges |-> s5.edges,
         mixer |-> s5.mixer, rebuilds |-> g.rebuilds + 1,
         pass |-> s5.log, passEdges |-> s5.made]

\* a rebuild that does not look at the context or the source
rebuildGraphUnguarded(g, ctx, chain, f, buf) == RebuildPass(g, chain, f, buf)

\* rebuildGraph() on the graph state g
rebuildGraph(g, ctx, chain, f, buf) ==
    IF ~ctx \/ g.node["sourceNode"] = 0 THEN g
    ELSE RebuildPass(g, chain, f, buf)

\* the graph state held by the variables
Graph ==
    [node |-> node, param |-> param, lfoStarted |-> lfoStarted,
     lfoStarts |-> lfoStarts, edges |-> edges, mixer |-> mixer,
     rebuilds |-> rebuilds, pass |-> pass, passEdges |-> passEdges]

\* the variables take the graph state g
SetGraph(g) ==
    /\ node' = g.node
    /\ param' = g.param
    /\ lfoStarted' = g.lfoStarted
    /\ lfoStarts' = g.lfoStarts
    /\ edges' = g.edges
    /\ mixer' = g.mixer
    /\ rebuilds' = g.rebuilds
    /\ pass' = g.pass
    /\ passEdges' = g.passEdges

-----------------------------------------------------------------------------
(* Handlers *)

\* position of the block of a kind in a chain
IndexOf(chain, id) == CHOOSE i \in 1..Len(chain) : chain[i].id = id

\* map[id] of the chain watcher: the enabled flag of the chain entry
EnabledIn(chain, id) == \E i \in 1..Len(chain) : chain[i].id = id /\ chain[i].enabled

\* watch(fxChain): the On flags of fx are overwritten from the chain
SyncFlags(f, chain) ==
    [f EXCEPT !.eqOn     = EnabledIn(chain, "eq"),
              !.distOn   = EnabledIn(chain, "dist"),
              !.chorusOn = EnabledIn(chain, "chorus"),
              !.delayOn  = EnabledIn(chain, "delay"),
              !.reverbOn = EnabledIn(chain, "reverb"),
              !.panOn    = EnabledIn(chain, "pan"),
              !.compOn   = EnabledIn(chain, "comp")]

\* an ensureAudioGraph() that creates the nodes and leaves them unconnected
ensureAudioGraphBare(g, ctx, chain, f, buf) ==
    IF ctx THEN g
    ELSE [g EXCEPT !.node["sourceNode"] = 1,
                   !.node["gainNode"] = 1,
                   !.node["analyser"] = 1,
                   !.param["gainNode.gain"] = volume]

\* an ensureAudioGraph() that does not look at audioCtx.value
ensureAudioGraphAgain(g, ctx, chain, f, buf) ==
    rebuildGraph([g EXCEPT !.node["sourceNode"] = @ + 1,
                           !.node["gainNode"] = @ + 1,
                           !.node["analyser"] = @ + 1,
                           !.param["gainNode.gain"] = volume],
                 TRUE, chain, f, buf)

\* ensureAudioGraph(): context, source, master gain and analyser, first rebuild;
\* every creation yields a new handle (the audio element exists once mounted)
ensureAudioGraph(g, ctx, chain, f, buf) ==
    IF ctx THEN g
    ELSE rebuildGraph([g EXCEPT !.node["sourceNode"] = @ + 1,
                                !.node["gainNode"] = @ + 1,
                                !.node["analyser"] = @ + 1,
                                !.param["gainNode.gain"] = volume],
                      TRUE, chain, f, buf)

\* audioEl.value.volume after ensureAudioGraph(): 1 once the graph is created
ElVolumeEnsured == IF audioCtx THEN elVolume ELSE VolumeMax

\* play(): the graph is created on the first playback
Play ==
    /\ audioCtx' = TRUE
    /\ SetGraph(ensureAudioGraph(Graph, audioCtx, fxChain, fx, buffer))
    /\ elVolume' = ElVolumeEnsured
    /\ UNCHANGED <<fx, fxChain, volume, buffer, pending, loads, ops>>

\* the chain watcher after fxChain became chain: flags, then rebuildGraph
ChainWatcher(g, chain) ==
    /\ fxChain' = chain
    /\ fx' = SyncFlags(fx, chain)
    /\ SetGraph(rebuildGraph(g, audioCtx, chain, SyncFlags(fx, chain), buffer))
    /\ ops' = ops + 1
    /\ UNCHANGED <<volume, elVolume, audioCtx, buffer, pending, loads>>

\* the "enabled" checkbox of a chain entry
ToggleEnabled(id) ==
    /\ ops < MaxOps
    /\ LET i == IndexOf(fxChain, id)
       IN  ChainWatcher(Graph, [fxChain EXCEPT ![i].enabled = ~@])

\* the mode select of a chain entry (the parallel option of eq and pan is disabled)
SetMode(id, m) ==
    /\ ops < MaxOps
    /\ id \in ParallelKinds
    /\ LET i == IndexOf(fxChain, id)
       IN  /\ fxChain[i].mode # m
           /\ ChainWatcher(Graph, [fxChain EXCEPT ![i].mode = m])

\* the chain after dragging the entry at position i to position j
MoveTo(chain, i, j) ==
    LET rest == SubSeq(chain, 1, i - 1) \o SubSeq(chain, i + 1, Len(chain))
    IN  SubSeq(rest, 1, j - 1) \o <<chain[i]>> \o SubSeq(rest, j, Len(rest))

\* the drags tried: an entry is dropped one position up or down
DragInputs ==
    {d \in (1..Len(ChainDefault)) \X (1..Len(ChainDefault)) :
        d[2] = d[1] + 1 \/ d[2] = d[1] - 1}

\* drag and drop: onChainChange rebuilds at once, the chain watcher follows
MoveBlock(i, j) ==
    /\ ops < MaxOps
    /\ i # j
    /\ LET chain == MoveTo(fxChain, i, j)
       IN  ChainWatcher(rebuildGraph(Graph, audioCtx, chain, fx, buffer), chain)

\* an On checkbox of the effects panel: no watcher observes it
ToggleOn(id) ==
    /\ ops < MaxOps
    /\ fx' = [fx EXCEPT ![OnField(id)] = ~@]
    /\ ops' = ops + 1
    /\ UNCHANGED <<fxChain, volume, elVolume, audioCtx, node, param, buffer,
                   lfoStarted, lfoStarts, edges, mixer, rebuilds, pass, passEdges, pending,
                   loads>>

\* the values a slider is moved between
LiveInputs(p) ==
    CASE p = "lowGain"       -> {0, 6}
      [] p = "midGain"       -> {0, -6}
      [] p = "highGain"      -> {0, 12}
      [] p = "distAmount"    -> {50, 100}
      [] p = "chorusRate"    -> {15, 1}
      [] p = "chorusDepth"   -> {2, 20}
      [] p = "delayTime"     -> {30, 150}
      [] p = "delayFeedback" -> {40, 95}
      [] p = "pan"           -> {0, -100}
      [] p = "compThreshold" -> {-24, 0}
      [] p = "compKnee"      -> {30, 0}
      [] p = "compRatio"     -> {12, 1}
      [] p = "compAttack"    -> {3, 200}
      [] p = "compRelease"   -> {25, 100}

WetInputs == {0, 50}

\* watchers that never write into the node
LiveWatcherIdle(nd, pr, p, v) == pr

\* the live watchers: the value is written into the node if the node exists
LiveWatcher(nd, pr, p, v) ==
    CASE p = "lowGain" ->
           IF nd["eqLow"] # 0 THEN [pr EXCEPT !["eqLow.gain"] = v] ELSE pr
      [] p = "midGain" ->
           IF nd["eqMid"] # 0 THEN [pr EXCEPT !["eqMid.gain"] = v] ELSE pr
      [] p = "highGain" ->
           IF nd["eqHigh"] # 0 THEN [pr EXCEPT !["eqHigh.gain"] = v] ELSE pr
      [] p = "distAmount" ->
           IF nd["waveShaper"] # 0
           THEN [pr EXCEPT !["waveShaper.curve"] = makeDistortionCurve(v)] ELSE pr
      [] p = "chorusRate" ->
           IF nd["chorusLFO"] # 0 THEN [pr EXCEPT !["chorusLFO.frequency"] = v] ELSE pr
      [] p = "chorusDepth" ->
           IF nd["chorusDepthGain"] # 0
           THEN [pr EXCEPT !["chorusDepthGain.gain"] = v] ELSE pr
      [] p = "delayTime" ->
           IF nd["delayNode"] # 0 THEN [pr EXCEPT !["delayNode.delayTime"] = v] ELSE pr
      [] p = "delayFeedback" ->
           IF nd["delayFeedback"] # 0
           THEN [pr EXCEPT !["delayFeedback.gain"] = v] ELSE pr
      [] p = "pan" ->
           IF nd["panner"] # 0 THEN [pr EXCEPT !["panner.pan"] = v] ELSE pr
      [] p = "compThreshold" ->
           IF nd["compressor"] # 0
           THEN [pr EXCEPT !["compressor.threshold"] = v] ELSE pr
      [] p = "compKnee" ->
           IF nd["compressor"] # 0 THEN [pr EXCEPT !["compressor.knee"] = v] ELSE pr
      [] p = "compRatio" ->
           IF nd["compressor"] # 0 THEN [pr EXCEPT !["compressor.ratio"] = v] ELSE pr
      [] p = "compAttack" ->
           IF nd["compressor"] # 0 THEN [pr EXCEPT !["compressor.attack"] = v] ELSE pr
      [] p = "compRelease" ->
           IF nd["compressor"] # 0 THEN [pr EXCEPT !["compressor.release"] = v] ELSE pr

\* a slider whose watcher rebuilds the graph with the value written
SetLiveRebuilding(p, v) ==
    /\ ops < MaxOps
    /\ v # fx[p]
    /\ fx' = [fx EXCEPT ![p] = v]
    /\ SetGraph(rebuildGraph(Graph, audioCtx, fxChain, [fx EXCEPT ![p] = v], buffer))
    /\ ops' = ops + 1
    /\ UNCHANGED <<fxChain, volume, elVolume, audioCtx, buffer, pending, loads>>

\* a slider of a live parameter
SetLive(p, v) ==
    /\ ops < MaxOps
    /\ v # fx[p]
    /\ fx' = [fx EXCEPT ![p] = v]
    /\ param' = LiveWatcher(node, param, p, v)
    /\ ops' = ops + 1
    /\ UNCHANGED <<fxChain, volume, elVolume, audioCtx, node, buffer,
                   lfoStarted, lfoStarts, edges, mixer, rebuilds, pass, passEdges, pending,
                   loads>>

\* updateGain(v): into the master gain if it exists
updateGain(nd, pr, v) ==
    IF nd["gainNode"] # 0 THEN [pr EXCEPT !["gainNode.gain"] = v] ELSE pr

\* the volume watcher after volume.value became v: updateGain(v)
VolumeWatcher(v) ==
    /\ ops < MaxOps
    /\ v # volume
    /\ volume' = v
    /\ param' = updateGain(node, param, v)
    /\ elVolume' = IF node["gainNode"] # 0 THEN elVolume ELSE v
    /\ ops' = ops + 1
    /\ UNCHANGED <<fx, fxChain, audioCtx, node, buffer, lfoStarted, lfoStarts, edges,
                   mixer, rebuilds, pass, passEdges, pending, loads>>

\* the values the volume slider is moved to
VolumeInputs == {VolumeMin, VolumeMax}

\* the volume slider
SetVolume(v) == VolumeWatcher(v)

\* onKey: ArrowUp (up = TRUE) and ArrowDown step the volume within its range
KeyVolume(up) ==
    VolumeWatcher(IF up THEN MathMin(volume + VolumeStep, VolumeMax)
                  ELSE MathMax(volume - VolumeStep, VolumeMin))

\* a wet slider whose watcher does not rebuild
SetWetSilent(p, v) ==
    /\ ops < MaxOps
    /\ v # fx[p]
    /\ fx' = [fx EXCEPT ![p] = v]
    /\ ops' = ops + 1
    /\ UNCHANGED <<fxChain, volume, elVolume, audioCtx, node, param, buffer,
                   lfoStarted, lfoStarts, edges, mixer, rebuilds, pass, passEdges, pending,
                   loads>>

\* a wet slider: its watcher rebuilds the graph
SetWet(p, v) ==
    /\ ops < MaxOps
    /\ v # fx[p]
    /\ fx' = [fx EXCEPT ![p] = v]
    /\ SetGraph(rebuildGraph(Graph, audioCtx, fxChain, [fx EXCEPT ![p] = v], buffer))
    /\ ops' = ops + 1
    /\ UNCHANGED <<fxChain, volume, elVolume, audioCtx, buffer, pending, loads>>

\* the text typed into the impulse URL field
IRInputs == {"", "ir.wav"}

\* the URL field is set to u and the load button is clicked: loadReverbIR() up to
\* its first await on fetch
LoadReverbIR(u) ==
    /\ ops < MaxOps
    /\ u # "" => loads < MaxLoads
    /\ fx' = [fx EXCEPT !.reverbIR = u]
    /\ LET g1 == ensureAudioGraph(Graph, audioCtx, fxChain, fx, buffer)
           g2 == [g1 EXCEPT !.node["convolver"] = OrCreate(@)]
       IN  IF u = ""
           THEN /\ buffer' = 0
                /\ SetGraph(rebuildGraph(g2, TRUE, fxChain, fx, 0))
                /\ UNCHANGED <<pending, loads>>
           ELSE /\ SetGraph(g2)
                /\ loads' = loads + 1
                /\ pending' = pending \cup {loads + 1}
                /\ UNCHANGED buffer
    /\ audioCtx' = TRUE
    /\ elVolume' = ElVolumeEnsured
    /\ ops' = ops + 1
    /\ UNCHANGED <<fxChain, volume>>

\* loadReverbIR() after fetch and decode succeeded: buffer set, rebuild
LoadDone(r) ==
    /\ r \in pending
    /\ pending' = pending \ {r}
    /\ buffer' = r
    /\ SetGraph(rebuildGraph(Graph, audioCtx, fxChain, fx, r))
    /\ UNCHANGED <<fx, fxChain, volume, elVolume, audioCtx, loads, ops>>

\* loadReverbIR() after fetch or decode failed: the catch block only logs
LoadFailed(r) ==
    /\ r \in pending
    /\ pending' = pending \ {r}
    /\ UNCHANGED <<fx, fxChain, volume, elVolume, audioCtx, node, param,
                   buffer, lfoStarted, lfoStarts, edges, mixer, rebuilds, pass, passEdges,
                   loads, ops>>

-----------------------------------------------------------------------------
(* The component *)

\* fxChain with the blocks of the given kinds enabled
Enabling(chain, ids) ==
    [i \in 1..Len(chain) |-> [chain[i] EXCEPT !.enabled = chain[i].id \in ids]]

\* what localStorage holds when the component is mounted: nothing, or the fx,
\* fxChain and volume an earlier session saved
StoredSessions ==
    { [fx |-> FxDefault, fxChain |-> ChainDefault, volume |-> Volume],
      [fx |-> FxDefault, fxChain |-> Enabling(ChainDefault, {"eq", "dist", "comp"}),
       volume |-> Volume],
      [fx |-> FxDefault, fxChain |-> Enabling(ChainDefault, {"delay"}),
       volume |-> Volume],
      [fx |-> [FxDefault EXCEPT !.reverbIR = "ir.wav"],
       fxChain |-> Enabling(ChainDefault, {"eq", "reverb"}), volume |-> Volume] }

\* the chain with the entries of the given kinds enabled in Parallel mode
EnablingParallel(chain, ids) ==
    [i \in 1..Len(chain) |->
        IF chain[i].id \in ids
        THEN [chain[i] EXCEPT !.enabled = TRUE, !.mode = "parallel"]
        ELSE chain[i]]

\* localStorage entries that the controls of the page cannot produce (edited by
\* hand, or written by another build): loadState() takes them as they are
ForeignSessions ==
    { [fx |-> FxDefault, fxChain |-> EnablingParallel(ChainDefault, {"eq", "pan"}),
       volume |-> Volume],
      [fx |-> [FxDefault EXCEPT !.distAmount = 150, !.pan = 200, !.delayWet = -50],
       fxChain |-> Enabling(ChainDefault, {"dist", "delay"}), volume |-> 150] }

\* onMounted: loadState() assigns fx and fxChain, the chain watcher sets the flags
\* (its rebuildGraph returns at the guard: there is no audio context yet)
Mounted(sessions) ==
    /\ \E s \in sessions :
          /\ fxChain = s.fxChain
          /\ fx = SyncFlags(s.fx, s.fxChain)
          /\ volume = MathMin(MathMax(VolumeMin, s.volume), VolumeMax)
    /\ elVolume = VolumeMax
    /\ audioCtx = FALSE
    /\ node = [n \in NodeNames |-> 0]
    /\ param = [s \in Slots |-> Unset]
    /\ buffer = 0
    /\ lfoStarted = FALSE
    /\ lfoStarts = 0
    /\ edges = {}
    /\ mixer = << >>
    /\ rebuilds = 0
    /\ pass = << >>
    /\ passEdges = {}
    /\ pending = {}
    /\ loads = 0
    /\ ops = 0

Init == Mounted(StoredSessions)

Next ==
    \/ Play
    \/ \E id \in Kinds : ToggleEnabled(id)
    \/ \E id \in Kinds, m \in {"serial", "parallel"} : SetMode(id, m)
    \/ \E d \in DragInputs : MoveBlock(d[1], d[2])
    \/ \E id \in Kinds : ToggleOn(id)
    \/ \E p \in LiveFields : \E v \in LiveInputs(p) : SetLive(p, v)
    \/ \E p \in WetFields, v \in WetInputs : SetWet(p, v)
    \/ \E v \in VolumeInputs : SetVolume(v)
    \/ \E up \in BOOLEAN : KeyVolume(up)
    \/ \E u \in IRInputs : LoadReverbIR(u)
    \/ \E r \in pending : LoadDone(r)
    \/ \E r \in pending : LoadFailed(r)

Spec == Init /\ [][Next]_vars

\* the component mounted on a localStorage entry it did not write itself
InitRestored == Mounted(ForeignSessions)

SpecRestored == InitRestored /\ [][Next]_vars

\* the positions of the drive slider: 0 to 100 in steps of 1
DriveInputs == 0..100

\* the component mounted with the distortion block enabled, the first playback,
\* and the drive slider moved over its whole range
InitCurve ==
    Mounted({[fx |-> FxDefault, fxChain |-> Enabling(ChainDefault, {"dist"}),
              volume |-> Volume]})

NextCurve ==
    \/ Play
    \/ \E v \in DriveInputs : SetLive("distAmount", v)

SpecCurve == InitCurve /\ [][NextCurve]_vars

-----------------------------------------------------------------------------
(* Vocabulary of the properties *)

\* the vertices reachable from S along E
RECURSIVE Reach(_, _)
Reach(E, S) ==
    LET T == S \cup {e[2] : e \in {x \in E : x[1] \in S}}
    IN  IF T = S THEN S ELSE Reach(E, T)

\* the vertices from which S is reachable along E
RECURSIVE CoReach(_, _)
CoReach(E, S) ==
    LET T == S \cup {e[1] : e \in {x \in E : x[2] \in S}}
    IN  IF T = S THEN S ELSE CoReach(E, T)

\* the vertices on a route from the master gain to the analysis tap
LiveNodesOf(E) == Reach(E, {N("gainNode")}) \cap CoReach(E, {N("analyser")})

\* the connections on a route from the master gain to the analysis tap
LiveEdgesOf(E) ==
    LET on == LiveNodesOf(E) IN {e \in E : e[1] \in on /\ e[2] \in on}

\* the vertices through which the signal of an effect kind passes
KindNodes(id) ==
    CASE id = "eq"     -> {N("eqLow"), N("eqMid"), N("eqHigh")}
      [] id = "dist"   -> {N("waveShaper")}
      [] id = "chorus" -> {N("chorusDelay")}
      [] id = "delay"  -> {N("delayNode")}
      [] id = "reverb" -> {N("convolver")}
      [] id = "pan"    -> {N("panner")}
      [] id = "comp"   -> {N("compressor")}

Entry(id) == IF id = "eq" THEN N("eqLow") ELSE CHOOSE v \in KindNodes(id) : TRUE
Exit(id) == IF id = "eq" THEN N("eqHigh") ELSE CHOOSE v \in KindNodes(id) : TRUE

\* every On flag of fx agrees with the chain entry
FlagsSynced == \A id \in Kinds : fx[OnField(id)] = EnabledIn(fxChain, id)

\* the chain entry i is enabled and nothing keeps rebuildGraph from wiring it
Eligible(i) ==
    /\ fxChain[i].enabled
    /\ fx[OnField(fxChain[i].id)]
    /\ fxChain[i].id = "reverb" => buffer # 0

\* the wet level a parallel block of the kind is mixed with
WetLevel(id) ==
    CASE id = "dist"   -> DistWet
      [] id = "chorus" -> fx.chorusWet
      [] id = "delay"  -> fx.delayWet
      [] id = "reverb" -> fx.reverbWet
      [] id = "comp"   -> CompWet

\* the head left by the latest pass
FinalHead == IF pass = << >> THEN N("gainNode") ELSE pass[Len(pass)].headOut

-----------------------------------------------------------------------------
(* C1: after a rebuild every connection that lies on a route from the master   *)
(* gain to the analysis tap was made by that rebuild: nothing wired by an      *)
(* earlier rebuild still carries signal to the tap.                            *)
C1_SingleRoute == LiveEdgesOf(edges) \subseteq passEdges

-----------------------------------------------------------------------------
\* the routes to the tap with the single-use stages named by kind and gain only
LiveShape(g) ==
    LET live == LiveEdgesOf(g.edges)
        Abs(v) == CASE v[1] = "dry" -> <<"dry", g.mixer[v[2]].dry>>
                    [] v[1] = "wet" -> <<"wet", g.mixer[v[2]].wet>>
                    [] v[1] = "sum" -> <<"sum", g.mixer[v[2]].sum>>
                    [] OTHER -> v
    IN  [count |-> Cardinality(live),
         shape |-> {<<Abs(e[1]), Abs(e[2])>> : e \in live}]

(* C2: rebuildGraph is idempotent: in every state, calling it twice in a row   *)
(* leaves the same connections reaching the analysis tap (same nodes, same     *)
(* gains, as many of them) as calling it once.                                 *)
C2_Idempotent ==
    audioCtx =>
        LET once  == rebuildGraph(Graph, audioCtx, fxChain, fx, buffer)
            twice == rebuildGraph(once, audioCtx, fxChain, fx, buffer)
        IN  LiveShape(twice) = LiveShape(once)

-----------------------------------------------------------------------------
\* the connections of the chain equalizer, shaper, compressor
ScenarioEdges ==
    { <<N("sourceNode"), N("gainNode")>>, <<N("gainNode"), N("eqLow")>>,
      <<N("eqLow"), N("eqMid")>>, <<N("eqMid"), N("eqHigh")>>,
      <<N("eqHigh"), N("waveShaper")>>, <<N("waveShaper"), N("compressor")>>,
      <<N("compressor"), N("analyser")>>, <<N("analyser"), Destination>> }

\* equalizer, shaper, compressor enabled Serial in that order, all others disabled
Scenario ==
    /\ FlagsSynced
    /\ \A i \in 1..Len(fxChain) :
          fxChain[i].enabled <=> fxChain[i].id \in {"eq", "dist", "comp"}
    /\ \A i \in 1..Len(fxChain) : fxChain[i].enabled => fxChain[i].mode = "serial"
    /\ IndexOf(fxChain, "eq") < IndexOf(fxChain, "dist")
    /\ IndexOf(fxChain, "dist") < IndexOf(fxChain, "comp")

C3_Post ==
    /\ \A a, b \in 1..Len(pass) :
          a < b => IndexOf(fxChain, pass[a].id) < IndexOf(fxChain, pass[b].id)
    /\ \A i \in 1..Len(fxChain) :
          (Eligible(i) /\ fxChain[i].mode = "serial")
             <=> \E k \in 1..Len(pass) : pass[k].id = fxChain[i].id /\ pass[k].serial
    /\ \A k \in 1..Len(pass) :
          /\ pass[k].headIn = IF k = 1 THEN N("gainNode") ELSE pass[k-1].headOut
          /\ pass[k].serial =>
                /\ <<pass[k].headIn, Entry(pass[k].id)>> \in edges
                /\ pass[k].headOut = Exit(pass[k].id)
                /\ pass[k].id = "eq" =>
                      /\ <<N("eqLow"), N("eqMid")>> \in edges
                      /\ <<N("eqMid"), N("eqHigh")>> \in edges
    /\ <<N("sourceNode"), N("gainNode")>> \in edges
    /\ <<FinalHead, N("analyser")>> \in edges
    /\ <<N("analyser"), Destination>> \in edges
    /\ Scenario => passEdges = ScenarioEdges

(* C3: after every rebuild the Serial blocks it wired are on the path in chain *)
(* order: the head is connected to the entry node of each and becomes its exit *)
(* node (low -> mid -> high for the equalizer); with equalizer, shaper and     *)
(* compressor enabled Serial in that order and the others disabled the pass    *)
(* connects source -> gain -> low -> mid -> high -> shaper -> compressor ->    *)
(* analyser -> destination.                                                    *)
C3_SerialInOrder == [][rebuilds' # rebuilds => C3_Post']_vars

C3_Witness ==
    /\ rebuilds > 0
    /\ Scenario
    /\ [k \in 1..Len(pass) |-> pass[k].id] = <<"eq", "dist", "comp">>
    /\ passEdges = ScenarioEdges

-----------------------------------------------------------------------------
\* the effect kinds with a node on a route from the master gain to the tap
LiveKindsOf(E) == {id \in Kinds : KindNodes(id) \cap LiveNodesOf(E) # {}}

(* C4: when all enabled blocks are Serial, after a rebuild the number of       *)
(* effect stages the signal passes between master gain and tap equals the      *)
(* number of enabled blocks, whatever rebuilds came before.                    *)
C4_StageCount ==
    (/\ audioCtx
     /\ FlagsSynced
     /\ \A i \in 1..Len(fxChain) :
           fxChain[i].enabled => Eligible(i) /\ fxChain[i].mode = "serial")
    => LET g == rebuildGraph(Graph, audioCtx, fxChain, fx, buffer)
       IN  Cardinality(LiveKindsOf(g.edges))
              = Cardinality({i \in 1..Len(fxChain) : fxChain[i].enabled})

-----------------------------------------------------------------------------
\* the connections at the stages of the n-th makeParallel call are the five of
\* the block, plus the one leaving sum towards the next head
ParallelWired(k) ==
    LET b == pass[k]
        n == b.n
        stages == {Dry(n), Wet(n), Sum(n)}
    IN  /\ b.headOut = Sum(n)
        /\ mixer[n] = [dry |-> 100, wet |-> WetLevel(b.id), sum |-> 100]
        /\ <<b.headIn, Entry(b.id)>> \in edges
        /\ {e \in edges : e[1] \in {Dry(n), Wet(n)} \/ e[2] \in stages}
              = { <<b.headIn, Dry(n)>>, <<Entry(b.id), Wet(n)>>,
                  <<Dry(n), Sum(n)>>, <<Wet(n), Sum(n)>> }
        /\ {e[2] : e \in {x \in edges : x[1] = Sum(n)}}
              = {IF k = Len(pass) THEN N("analyser")
                 ELSE IF pass[k+1].serial THEN Entry(pass[k+1].id)
                 ELSE Dry(pass[k+1].n)}
                \cup (IF k < Len(pass) /\ ~pass[k+1].serial
                      THEN {Entry(pass[k+1].id)} ELSE {})

C5_Post ==
    \A k \in 1..Len(pass) : ~pass[k].serial => ParallelWired(k)

(* C5: every block a rebuild wires in Parallel mode gets three fresh gain      *)
(* stages and exactly the connections head -> dry (gain 1), head -> node,      *)
(* node -> wet, dry -> sum (gain 1), wet -> sum, and the head becomes sum;     *)
(* the wet gain is the block's current wet level.                              *)
C5_ParallelWiring ==
    [][rebuilds' # rebuilds =>
          /\ C5_Post'
          /\ \A k \in 1..Len(pass') : ~pass'[k].serial => pass'[k].n > Len(mixer)]_vars

C5_Witness ==
    /\ Len(pass) = 1
    /\ pass[1].id = "delay" /\ ~pass[1].serial
    /\ fx.delayWet = 50
    /\ mixer[pass[1].n] = [dry |-> 100, wet |-> 50, sum |-> 100]
    /\ { <<N("gainNode"), Dry(pass[1].n)>>, <<N("gainNode"), N("delayNode")>>,
         <<N("delayNode"), Wet(pass[1].n)>>, <<Dry(pass[1].n), Sum(pass[1].n)>>,
         <<Wet(pass[1].n), Sum(pass[1].n)>>,
         <<Sum(pass[1].n), N("analyser")>> } \subseteq edges

-----------------------------------------------------------------------------
\* the gain stages whose gain value is 0
ZeroStages ==
    {Wet(n) : n \in {m \in 1..Len(mixer) : mixer[m].wet = 0}}
    \cup {N(x) : x \in {y \in {"chorusWet", "delayWet", "reverbWet", "delayFeedback"} :
                          node[y] # 0 /\ param[IF y = "chorusWet" THEN "chorusWet.gain"
                                               ELSE IF y = "delayWet" THEN "delayWet.gain"
                                               ELSE IF y = "reverbWet" THEN "reverbWet.gain"
                                               ELSE "delayFeedback.gain"] = 0}}

(* C6: when a block is wired in Parallel mode with wet level 0, every route    *)
(* from its effect node to the analysis tap passes a gain stage of value 0.    *)
C6_WetZeroSilent ==
    \A k \in 1..Len(pass) :
        (~pass[k].serial /\ WetLevel(pass[k].id) = 0)
        => N("analyser") \notin
              Reach({e \in edges : e[1] \notin ZeroStages /\ e[2] \notin ZeroStages},
                    {Entry(pass[k].id)})

-----------------------------------------------------------------------------
(* C7: after a rebuild that wired the delay block, Serial or Parallel, both    *)
(* connections of the feedback loop exist: delay -> feedback, feedback ->      *)
(* delay.                                                                      *)
C7_FeedbackLoop ==
    (\E k \in 1..Len(pass) : pass[k].id = "delay")
    => /\ <<N("delayNode"), N("delayFeedback")>> \in edges
       /\ <<N("delayFeedback"), N("delayNode")>> \in edges

-----------------------------------------------------------------------------
\* the node a slot belongs to
SlotNode(s) ==
    CASE s = "eqLow.gain" -> "eqLow"
      [] s = "eqMid.gain" -> "eqMid"
      [] s = "eqHigh.gain" -> "eqHigh"
      [] s = "waveShaper.curve" -> "waveShaper"
      [] s = "chorusLFO.frequency" -> "chorusLFO"
      [] s = "chorusDepthGain.gain" -> "chorusDepthGain"
      [] s = "chorusWet.gain" -> "chorusWet"
      [] s = "delayNode.delayTime" -> "delayNode"
      [] s = "delayFeedback.gain" -> "delayFeedback"
      [] s = "delayWet.gain" -> "delayWet"
      [] s = "reverbWet.gain" -> "reverbWet"
      [] s = "panner.pan" -> "panner"
      [] s = "gainNode.gain" -> "gainNode"
      [] OTHER -> "compressor"

(* C8: a node handle, once created, is never replaced or reset to null; and a  *)
(* step that changes no parameter of fx and not the master level (a toggle, a  *)
(* reorder, a mode change, a rebuild) leaves every parameter value of every    *)
(* existing node as it was.                                                    *)
C8_NodesRetained ==
    [][/\ \A n \in NodeNames : node[n] # 0 => node'[n] = node[n]
       /\ (/\ \A p \in LiveFields \cup WetFields : fx'[p] = fx[p]
           /\ volume' = volume)
          => \A s \in Slots : node[SlotNode(s)] # 0 => param'[s] = param[s]]_vars

\* the delay block is wired again after a pass that left it out
C8_Witness ==
    /\ rebuilds = 3 /\ ops = 2
    /\ Len(mixer) = 2
    /\ \E k \in 1..Len(pass) : pass[k].id = "delay" /\ pass[k].n = 2
    /\ node["delayNode"] = 1 /\ node["delayFeedback"] = 1
    /\ param["delayNode.delayTime"] = fx.delayTime
    /\ param["delayFeedback.gain"] = fx.delayFeedback

-----------------------------------------------------------------------------
\* the slot a live field of fx is written to, and the value it takes there
LiveSlot(p) ==
    CASE p = "lowGain" -> "eqLow.gain"
      [] p = "midGain" -> "eqMid.gain"
      [] p = "highGain" -> "eqHigh.gain"
      [] p = "distAmount" -> "waveShaper.curve"
      [] p = "chorusRate" -> "chorusLFO.frequency"
      [] p = "chorusDepth" -> "chorusDepthGain.gain"
      [] p = "delayTime" -> "delayNode.delayTime"
      [] p = "delayFeedback" -> "delayFeedback.gain"
      [] p = "pan" -> "panner.pan"
      [] p = "compThreshold" -> "compressor.threshold"
      [] p = "compKnee" -> "compressor.knee"
      [] p = "compRatio" -> "compressor.ratio"
      [] p = "compAttack" -> "compressor.attack"
      [] p = "compRelease" -> "compressor.release"

LiveValue(p) == IF p = "distAmount" THEN makeDistortionCurve(fx[p]) ELSE fx[p]

(* C9: whenever the node of a live parameter exists, in particular whenever    *)
(* its block is enabled and a rebuild has completed, the node's value equals   *)
(* the current value of the parameter record, also for writes made while the   *)
(* block was disabled or before the node existed.                              *)
C9_LiveParamsCurrent ==
    \A p \in LiveFields :
        node[SlotNode(LiveSlot(p))] # 0 => param[LiveSlot(p)] = LiveValue(p)

\* the low-shelf gain was moved off its default and the equalizer is wired
C9_Witness ==
    /\ fx.lowGain = 6
    /\ \E k \in 1..Len(pass) : pass[k].id = "eq"
    /\ param["eqLow.gain"] = 6

-----------------------------------------------------------------------------
(* C10: whenever no impulse buffer is loaded and the reverb block is enabled,  *)
(* the convolver is on no route from the master gain to the analysis tap.      *)
C10_NoBufferNoReverb ==
    (buffer = 0 /\ EnabledIn(fxChain, "reverb") /\ FlagsSynced)
    => N("convolver") \notin LiveNodesOf(edges)

-----------------------------------------------------------------------------
(* C11: rebuildGraph called while there is no audio context, or no source     *)
(* node, returns the graph as it was, whatever the chain and the parameter     *)
(* record: no connection changes and no node is created; accordingly, as long  *)
(* as no context exists, no handler has made a connection or an effect node.   *)
C11_GuardNoOp ==
    /\ rebuildGraph(Graph, FALSE, fxChain, fx, buffer) = Graph
    /\ LET g == [Graph EXCEPT !.node["sourceNode"] = 0]
       IN  rebuildGraph(g, TRUE, fxChain, fx, buffer) = g
    /\ ~audioCtx =>
          /\ edges = {}
          /\ node = [n \in NodeNames |-> 0]
          /\ rebuilds = 0 /\ mixer = << >> /\ pass = << >>

\* the chorus block was enabled and the delay wet level set to 0 before the
\* first playback
C11_Witness ==
    /\ ~audioCtx
    /\ EnabledIn(fxChain, "chorus") /\ fx.chorusOn
    /\ fx.delayWet = 0
    /\ edges = {}
    /\ node = [n \in NodeNames |-> 0]

-----------------------------------------------------------------------------
(* C12: a step that changes a live parameter of fx, or the master level,       *)
(* passes no rebuild and leaves the connections, the node handles and the      *)
(* mixing stages as they were; of the node parameters it changes at most the   *)
(* one of that field, to the value written, and none when the node of that     *)
(* field does not exist.                                                       *)
C12_LiveWriteFrame ==
    [][/\ \A p \in LiveFields :
             fx'[p] # fx[p] =>
                /\ rebuilds' = rebuilds
                /\ edges' = edges /\ node' = node /\ mixer' = mixer
                /\ \A s \in Slots \ {LiveSlot(p)} : param'[s] = param[s]
                /\ IF node[SlotNode(LiveSlot(p))] = 0 THEN param' = param
                   ELSE param'[LiveSlot(p)]
                           = IF p = "distAmount" THEN makeDistortionCurve(fx'[p])
                             ELSE fx'[p]
       /\ volume' # volume =>
             /\ rebuilds' = rebuilds
             /\ edges' = edges /\ node' = node /\ mixer' = mixer
             /\ \A s \in Slots \ {"gainNode.gain"} : param'[s] = param[s]
             /\ IF node["gainNode"] = 0 THEN param' = param
                ELSE param'["gainNode.gain"] = volume']_vars

\* the master level was written into the master gain, and the pan was moved
\* while no panner exists
C12_Witness ==
    /\ rebuilds = 1
    /\ volume = VolumeMin /\ param["gainNode.gain"] = VolumeMin
    /\ fx.pan = -100 /\ node["panner"] = 0 /\ param["panner.pan"] = Unset

-----------------------------------------------------------------------------
(* C13: once the audio context exists, every step that changes the chain (an   *)
(* entry enabled or disabled, reordered, its mode changed), a wet level of     *)
(* chorus, delay or reverb, or the impulse buffer of the convolver (installed  *)
(* or cleared) also completes a rebuild: no state in which another handler can *)
(* run lies between the change and its rebuild.                                *)
C13_ChangeThenRebuild ==
    [][(/\ audioCtx'
        /\ \/ fxChain' # fxChain
           \/ \E p \in WetFields : fx'[p] # fx[p]
           \/ buffer' # buffer)
       => rebuilds' > rebuilds]_vars

\* an impulse response was installed and the reverb wet level then set to 0:
\* the latest pass mixes the reverb with that level
C13_Witness ==
    /\ buffer # 0
    /\ rebuilds = 3
    /\ fx.reverbWet = 0
    /\ \E k \in 1..Len(pass) :
          pass[k].id = "reverb" /\ ~pass[k].serial /\ mixer[pass[k].n].wet = 0

-----------------------------------------------------------------------------
(* C14: a rebuild wires an enabled equalizer or pan block whose mode is        *)
(* Parallel as it wires a Serial one: the head is connected to the entry node  *)
(* of the block and becomes its exit node.                                     *)
C14_ParallelCoerced ==
    audioCtx =>
        LET g == rebuildGraph(Graph, audioCtx, fxChain, fx, buffer)
        IN  \A i \in 1..Len(fxChain) :
               (/\ fxChain[i].id \in {"eq", "pan"}
                /\ fxChain[i].enabled /\ fx[OnField(fxChain[i].id)]
                /\ fxChain[i].mode = "parallel")
               => \E k \in 1..Len(g.pass) :
                     /\ g.pass[k].id = fxChain[i].id
                     /\ g.pass[k].serial
                     /\ <<g.pass[k].headIn, Entry(fxChain[i].id)>> \in g.edges
                     /\ g.pass[k].headOut = Exit(fxChain[i].id)

-----------------------------------------------------------------------------
(* C15: a step in which a pending impulse-response load ends in failure (it    *)
(* leaves the pending loads and no rebuild runs) leaves the reverb inactive:   *)
(* the convolver holds no buffer, the latest pass has not wired the reverb     *)
(* block, and no new load is started; also when an earlier load succeeded.     *)
C15_FailedLoadInactive ==
    [][(/\ pending' # pending
        /\ pending' \subseteq pending
        /\ rebuilds' = rebuilds)
       => /\ buffer' = 0
          /\ \A k \in 1..Len(pass') : pass'[k].id # "reverb"
          /\ loads' = loads]_vars

-----------------------------------------------------------------------------
(* C16: once a rebuild has passed the guard, the analyser's only outbound      *)
(* connection goes to the destination, the destination's only inbound          *)
(* connection comes from the analyser, the source's only outbound connection   *)
(* goes to the master gain, and the final head of the latest pass is connected *)
(* to the analyser.                                                            *)
C16_TapBeforeSink ==
    rebuilds > 0 =>
        /\ {e[2] : e \in {x \in edges : x[1] = N("analyser")}} = {Destination}
        /\ {e[1] : e \in {x \in edges : x[2] = Destination}} = {N("analyser")}
        /\ {e[2] : e \in {x \in edges : x[1] = N("sourceNode")}} = {N("gainNode")}
        /\ <<FinalHead, N("analyser")>> \in edges

\* after a second rebuild the pass ends in a parallel mix, and the analyser
\* still has an inbound connection of the earlier pass
C16_Witness ==
    /\ rebuilds > 1
    /\ pass # << >>
    /\ ~pass[Len(pass)].serial
    /\ FinalHead = Sum(Len(mixer))
    /\ <<FinalHead, N("analyser")>> \in edges
    /\ Cardinality({e \in edges : e[2] = N("analyser")}) > 1

-----------------------------------------------------------------------------
(* C17: in every state between two handlers in which the source node exists,   *)
(* the signal has a route source -> master gain -> ... -> analyser ->          *)
(* destination: no handler ends with the graph torn down and not reconnected.  *)
C17_NeverTornDown ==
    node["sourceNode"] # 0 =>
        /\ <<N("sourceNode"), N("gainNode")>> \in edges
        /\ N("analyser") \in Reach(edges, {N("gainNode")})
        /\ <<N("analyser"), Destination>> \in edges
        /\ Destination \in Reach(edges, {N("sourceNode")})

\* the only enabled block was disabled: the second rebuild tore the route
\* through the delay down and connected the master gain to the analyser
C17_Witness ==
    /\ rebuilds = 2
    /\ pass = << >>
    /\ node["delayNode"] # 0
    /\ passEdges = { <<N("sourceNode"), N("gainNode")>>,
                     <<N("gainNode"), N("analyser")>>,
                     <<N("analyser"), Destination>> }

-----------------------------------------------------------------------------
(* C18: the chorus oscillator is started at most once: it goes from not        *)
(* started to started only in a rebuild, every rebuild that prepares the       *)
(* chorus leaves it started, a started oscillator stays started and is not     *)
(* started again, and a rebuild that repeats the start attempt runs to its     *)
(* final connections.                                                          *)
C18_StartedOnce ==
    [][/\ lfoStarts' <= 1
       /\ lfoStarted' <=> lfoStarts' = 1
       /\ lfoStarted => lfoStarted' /\ lfoStarts' = lfoStarts
       /\ (~lfoStarted /\ lfoStarted') => rebuilds' # rebuilds
       /\ (rebuilds' # rebuilds /\ fx'.chorusOn) =>
             /\ lfoStarted'
             /\ node'["chorusLFO"] # 0
             /\ <<N("chorusLFO"), N("chorusDepthGain")>> \in passEdges'
             /\ <<FinalHead', N("analyser")>> \in passEdges'
             /\ <<N("analyser"), Destination>> \in passEdges'
             /\ EnabledIn(fxChain', "chorus") =>
                   \E k \in 1..Len(pass') : pass'[k].id = "chorus"]_vars

\* the chorus block was wired by two rebuilds, the oscillator started by the
\* first of them only
C18_Witness ==
    /\ lfoStarted /\ lfoStarts = 1
    /\ rebuilds = 3
    /\ Len(mixer) = 2
    /\ \E k \in 1..Len(pass) : pass[k].id = "chorus" /\ pass[k].n = 2

-----------------------------------------------------------------------------
(* C19: once a rebuild has passed the guard, the blocks wired by the latest    *)
(* pass are exactly the enabled entries of the chain (the reverb only with an  *)
(* impulse buffer loaded), whatever was written to the On flags of fx.         *)
C19_ChainIsTruth ==
    rebuilds > 0 =>
        \A i \in 1..Len(fxChain) :
            (/\ fxChain[i].enabled
             /\ fxChain[i].id = "reverb" => buffer # 0)
            <=> \E k \in 1..Len(pass) : pass[k].id = fxChain[i].id

-----------------------------------------------------------------------------
\* the range the slider of a numeric field of fx declares
FxRange(p) ==
    CASE p \in {"lowGain", "midGain", "highGain"} -> [lo |-> -12, hi |-> 12]
      [] p = "distAmount"    -> [lo |-> 0, hi |-> 100]
      [] p = "chorusRate"    -> [lo |-> 1, hi |-> 50]
      [] p = "chorusDepth"   -> [lo |-> 1, hi |-> 20]
      [] p \in WetFields     -> [lo |-> 0, hi |-> 100]
      [] p = "delayTime"     -> [lo |-> 0, hi |-> 150]
      [] p = "delayFeedback" -> [lo |-> 0, hi |-> 95]
      [] p = "pan"           -> [lo |-> -100, hi |-> 100]
      [] p = "compThreshold" -> [lo |-> -60, hi |-> 0]
      [] p = "compKnee"      -> [lo |-> 0, hi |-> 40]
      [] p = "compRatio"     -> [lo |-> 1, hi |-> 20]
      [] p = "compAttack"    -> [lo |-> 1, hi |-> 200]
      [] p = "compRelease"   -> [lo |-> 5, hi |-> 100]

(* C20: in every state, also right after loadState() restored a stored         *)
(* session, the master level and every numeric parameter of fx lie within      *)
(* their declared ranges.                                                      *)
C20_InRange ==
    /\ volume \in VolumeMin..VolumeMax
    /\ \A p \in LiveFields \cup WetFields :
          fx[p] \in FxRange(p).lo..FxRange(p).hi

-----------------------------------------------------------------------------
\* every CurveStride-th index of the table, and the indices around its midpoint
CurveStride == 441

CurveSamples ==
    {CurveStride * j : j \in 0..((CurveN - 1) \div CurveStride)}
    \cup ((CurveN \div 2 - 2)..(CurveN \div 2 + 2))

\* |a + b| is at most 1 / 1000, for a and b in units of 9 * 2 ^ -FracBits
NearOpposite(a, b) ==
    LET sum == IF a + b < 0 THEN -(a + b) ELSE a + b
    IN  1000 * sum <= 9 * 2 ^ FracBits

(* C21: the curve table held by the shaper is odd up to 1/1000: for the drive  *)
(* amount k it was made from, curve[n-1-i] and -curve[i] differ by at most     *)
(* 1/1000 at every sampled index i, the value at the midpoint index n/2 is 0,  *)
(* and values left of the midpoint are negative, right of it positive.         *)
C21_CurveOdd ==
    node["waveShaper"] # 0 =>
        LET k == param["waveShaper.curve"][2]
        IN  /\ \A i \in CurveSamples :
                  /\ NearOpposite(CurveValue(k, CurveN - 1 - i), CurveValue(k, i))
                  /\ i < CurveN \div 2 => CurveValue(k, i) < 0
                  /\ i > CurveN \div 2 => CurveValue(k, i) > 0
            /\ CurveValue(k, CurveN \div 2) = 0

\* the shaper holds the table of the largest drive: the sample left of the
\* midpoint is the mirror image of the midpoint sample, and it is not 0
C21_Witness ==
    /\ node["waveShaper"] # 0
    /\ param["waveShaper.curve"] = makeDistortionCurve(100)
    /\ CurveValue(100, CurveN \div 2) = 0
    /\ CurveValue(100, CurveN - 1 - CurveN \div 2) < 0
    /\ CurveValue(100, 0) < 0
    /\ CurveValue(100, CurveN - 1) > 0

-----------------------------------------------------------------------------
-----------------------------------------------------------------------------
\* the connections without the closing connection of the delay feedback loop
EdgesOutsideLoop == edges \ {<<N("delayFeedback"), N("delayNode")>>}

(* C23: apart from the delay feedback loop (delay -> feedback -> delay) the    *)
(* connection graph has no directed cycle: no vertex is reachable from one of  *)
(* its own successors.                                                         *)
C23_NoCycle ==
    \A v \in {e[1] : e \in EdgesOutsideLoop} :
        v \notin Reach(EdgesOutsideLoop,
                       {e[2] : e \in {x \in EdgesOutsideLoop : x[1] = v}})

-----------------------------------------------------------------------------
(* C24: once no load is pending, the buffer of the convolver answers the most  *)
(* recent request: after a clear (the URL field is empty) there is no buffer;  *)
(* and the buffer of a load is never replaced by the buffer of a load that     *)
(* was requested before it.                                                    *)
C24_LatestRequestWins ==
    [][/\ (pending' = {} /\ fx'.reverbIR = "") => buffer' = 0
       /\ (buffer # 0 /\ buffer' # 0) => buffer' >= buffer]_vars

-----------------------------------------------------------------------------
\* the handles ensureAudioGraph() creates
BaseNodes == {"sourceNode", "gainNode", "analyser"}

(* C25: source, master gain and analyser are created together with the audio  *)
(* context and at most once (a handle counts its creations): they exist        *)
(* exactly when the context exists, and a call of ensureAudioGraph() in a      *)
(* state with a context returns the graph as it is.                            *)
C25_CreatedOnce ==
    /\ \A n \in BaseNodes : node[n] \in {0, 1}
    /\ audioCtx <=> \A n \in BaseNodes : node[n] = 1
    /\ ~audioCtx => \A n \in BaseNodes : node[n] = 0
    /\ audioCtx => ensureAudioGraph(Graph, audioCtx, fxChain, fx, buffer) = Graph

\* an impulse response was loaded after the first playback and a second load
\* was requested: three calls found the context, the handles are the first ones
C25_Witness ==
    /\ audioCtx
    /\ \A n \in BaseNodes : node[n] = 1
    /\ ops = 2 /\ loads = 2
    /\ buffer # 0
    /\ rebuilds >= 2

=============================================================================
